---------------------------- MODULE Spec2Model ----------------------------
(***************************************************************************)
(* BunLite-Typed: a typed wrapper (class BunLiteDB, src/src/index.ts) over *)
(* Bun's embedded SQLite engine.  The model keeps                          *)
(*   - the connections' known-name sets (BunLiteDB.tableNames),            *)
(*   - the store the engine holds (catalog, columns, rows in rowid order), *)
(*   - the async generators recordsIterator returns, between two pulls,    *)
(*   - the outcome of the last call and the statements it sent.            *)
(* A name is a sequence of one-character strings, so that the identifier   *)
(* regular expression is run over it character by character.               *)
(***************************************************************************)
EXTENDS Integers, Sequences, FiniteSets, TLC

VARIABLES
    tableNames,   \* [Conns -> SUBSET names]: BunLiteDB.tableNames of each connection
    store,        \* the engine's catalog: [existing table names -> table]
    iters,        \* [IterIds -> generator object of recordsIterator]
    last,         \* the last call: operation, arguments, outcome, returned rows
    stmts,        \* the statements the last call sent to the engine, in order
    dropped,      \* [Conns -> names the connection dropped with DROP TABLE]
    fkMode,       \* [Conns -> "ON" or "OFF"]: PRAGMA foreign_keys of each connection
    ident,        \* the string validateSQLiteIdentifier is called with directly
    identResult   \* what that call did: "none" (not made), "ok" or "SQLError"

vars == <<tableNames, store, iters, last, stmts, dropped, fkMode, ident, identResult>>

-----------------------------------------------------------------------------
(* Bounds of the model                                                     *)

MaxRows == 3        \* rows a table holds at most
MaxNameLen == 3     \* length of the strings given to the identifier validator
MaxPage == 2        \* largest page number and page size
MaxBatch == 4       \* largest batch size of a traversal

-----------------------------------------------------------------------------
(* Characters and names                                                    *)

LowerCase == {"a","b","c","d","e","f","g","h","i","j","k","l","m",
              "n","o","p","q","r","s","t","u","v","w","x","y","z"}
UpperCase == {"A","B","C","D","E","F","G","H","I","J","K","L","M",
              "N","O","P","Q","R","S","T","U","V","W","X","Y","Z"}
Digits == {"0","1","2","3","4","5","6","7","8","9"}

\* [a-zA-Z_] and [a-zA-Z0-9_$] of the regular expression
FirstClass == LowerCase \cup UpperCase \cup {"_"}
RestClass == LowerCase \cup UpperCase \cup Digits \cup {"_", "$"}

\* the greedy star [a-zA-Z0-9_$]* from position i: the first position it
\* does not consume
RECURSIVE StarFrom(_, _)
StarFrom(name, i) ==
    IF i > Len(name) THEN i
    ELSE IF name[i] \in RestClass THEN StarFrom(name, i + 1)
    ELSE i

\* the regular expression without its closing anchor
RegexMatchUnanchored(name) ==
    /\ Len(name) >= 1
    /\ name[1] \in FirstClass

\* name.match(/^[a-zA-Z_][a-zA-Z0-9_$]*$/): ^ at position 1, one character of
\* the first class, the star, then $ at the end of the input only
RegexMatch(name) ==
    /\ Len(name) >= 1
    /\ name[1] \in FirstClass
    /\ StarFrom(name, 2) = Len(name) + 1

\* validateSQLiteIdentifier: throws SQLError unless the name matches
validateSQLiteIdentifier(name) ==
    IF RegexMatch(name) THEN "ok" ELSE "SQLError"


-----------------------------------------------------------------------------
(* The names the calls are made with                                       *)

Users == <<"U">>
Posts == <<"P", "1">>
BadTable == <<"U", ";">>          \* 'U;': not an identifier
ColId == <<"i", "d">>
ColName == <<"n", "m">>
ColQty == <<"q">>
BadCol == <<"q", ";">>            \* 'q;': not an identifier
NoCol == <<"z">>                  \* an identifier no table has as a column

-----------------------------------------------------------------------------
(* Values: what JavaScript binds and what the engine stores and returns    *)

NullV == [tag |-> "null", num |-> 0, txt |-> ""]
IntV(n) == [tag |-> "int", num |-> n, txt |-> ""]
TextV(s) == [tag |-> "text", num |-> 0, txt |-> s]

\* decimal text of the integers 1..9
DecimalText == <<"1", "2", "3", "4", "5", "6", "7", "8", "9">>
IsDecimal(s) == \E n \in 1..Len(DecimalText) : DecimalText[n] = s
DecimalOf(s) == CHOOSE n \in 1..Len(DecimalText) : DecimalText[n] = s

\* a column type of DataTypes: a primitive type and up to four constraints
Type(base, constraints) == [base |-> base, constraints |-> constraints]
HasConstraint(type, c) ==
    \E i \in 1..Len(type.constraints) : type.constraints[i] = c

\* a column definition of TableSchema: without a foreignKey clause, and with
\* the clause 'REFERENCES table(col)'
NoRef == [table |-> <<>>, col |-> <<>>]
Col(name, type) == [name |-> name, type |-> type, foreignKey |-> NoRef]
ColRef(name, type, table, col) ==
    [name |-> name, type |-> type, foreignKey |-> [table |-> table, col |-> col]]

\* the engine stores a value as the column's type affinity asks: INTEGER
\* takes text that reads as an integer as that integer, TEXT takes an
\* integer as its decimal text; anything else is kept
ApplyAffinity(base, v) ==
    IF base = "INTEGER" /\ v.tag = "text" /\ IsDecimal(v.txt)
        THEN IntV(DecimalOf(v.txt))
    ELSE IF base = "TEXT" /\ v.tag = "int" /\ v.num \in 1..Len(DecimalText)
        THEN TextV(DecimalText[v.num])
    ELSE v

-----------------------------------------------------------------------------
(* The engine: what db.run and db.query(...).all do with a statement.  A   *)
(* table is [cols, rows, seq]: the column definitions in declaration       *)
(* order, the rows in rowid order, each a function from column name to     *)
(* value, and the largest rowid the engine has given out for the table     *)
(* when it has an AUTOINCREMENT column (its row of sqlite_sequence).       *)

Range(s) == {s[i] : i \in 1..Len(s)}
IndexOf(s, x) == CHOOSE i \in 1..Len(s) : s[i] = x
ColNames(table) == [i \in 1..Len(table.cols) |-> table.cols[i].name]
ColOf(table, name) == table.cols[IndexOf(ColNames(table), name)]

\* the engine's tokenizer reads the name as one identifier token
EngineReadsName(name) ==
    /\ Len(name) >= 1
    /\ name[1] \in FirstClass
    /\ \A i \in 2..Len(name) : name[i] \in RestClass

IsRowid(col) ==
    col.type.base = "INTEGER" /\ HasConstraint(col.type, "PRIMARY KEY")

HasAutoincrement(table) ==
    \E c \in Range(table.cols) : HasConstraint(c.type, "AUTOINCREMENT")

\* the largest rowid in use, or given out before under AUTOINCREMENT
MaxRowid(table) ==
    LET ids == {table.rows[i][c.name].num :
                   i \in 1..Len(table.rows),
                   c \in {d \in Range(table.cols) : IsRowid(d)}}
            \cup (IF HasAutoincrement(table) THEN {table.seq} ELSE {})
    IN IF ids = {} THEN Len(table.rows)
       ELSE CHOOSE m \in ids : \A k \in ids : k <= m

\* the table's row of sqlite_sequence once the engine has given row its rowid
SeqAfter(table, row) ==
    LET keys == {c \in Range(table.cols) : IsRowid(c)}
    IN IF HasAutoincrement(table) /\ keys # {}
       THEN LET id == row[(CHOOSE c \in keys : TRUE).name].num
            IN IF id > table.seq THEN id ELSE table.seq
       ELSE table.seq

\* the row an INSERT of vals under cols makes
NewRow(table, cols, vals) ==
    [name \in Range(ColNames(table)) |->
        LET col == ColOf(table, name)
            given == IF name \in Range(cols)
                     THEN ApplyAffinity(col.type.base, vals[IndexOf(cols, name)])
                     ELSE NullV
        IN IF IsRowid(col) /\ given.tag = "null"
           THEN IntV(MaxRowid(table) + 1)
           ELSE given]

\* the constraints the engine checks on a new row
RowAllowed(table, row) ==
    \A c \in Range(table.cols) :
        /\ (HasConstraint(c.type, "NOT NULL") => row[c.name].tag # "null")
        /\ (HasConstraint(c.type, "UNIQUE") \/ IsRowid(c)) =>
              \/ row[c.name].tag = "null"
              \/ \A i \in 1..Len(table.rows) : table.rows[i][c.name] # row[c.name]

\* the rows with a new row put before all others
PlaceRowFirst(table, row) == <<row>> \o table.rows

\* the rows with a new row added: at its place in rowid order when the table
\* has an INTEGER PRIMARY KEY column, at the end otherwise
PlaceRow(table, row) ==
    LET keys == {c \in Range(table.cols) : IsRowid(c)}
    IN IF keys = {} THEN Append(table.rows, row)
       ELSE LET key == (CHOOSE c \in keys : TRUE).name
                k == Cardinality({i \in 1..Len(table.rows) :
                                     table.rows[i][key].num < row[key].num})
            IN SubSeq(table.rows, 1, k) \o <<row>>
                   \o SubSeq(table.rows, k + 1, Len(table.rows))

\* with PRAGMA foreign_keys = ON a row's value in a column with a REFERENCES
\* clause is NULL or the value some row of the parent table has in the
\* referenced column; with OFF nothing is asked
ForeignKeysIgnored(st, table, row, fk) == TRUE

ForeignKeysHold(st, table, row, fk) ==
    fk = "ON" =>
        \A c \in Range(table.cols) :
            (c.foreignKey # NoRef /\ row[c.name].tag # "null") =>
                /\ c.foreignKey.table \in DOMAIN st
                /\ \E i \in 1..Len(st[c.foreignKey.table].rows) :
                      st[c.foreignKey.table].rows[i][c.foreignKey.col] = row[c.name]

\* INSERT INTO T (cols) VALUES (?...) with vals bound, on a connection with
\* PRAGMA foreign_keys = fk: [ok, store]
EngineInsert(st, T, cols, vals, fk) ==
    IF \/ ~EngineReadsName(T)
       \/ \E i \in 1..Len(cols) : ~EngineReadsName(cols[i])
       \/ Len(cols) = 0
       \/ T \notin DOMAIN st
    THEN [ok |-> FALSE, store |-> st]
    ELSE IF \/ ~(Range(cols) \subseteq Range(ColNames(st[T])))
            \/ ~RowAllowed(st[T], NewRow(st[T], cols, vals))
            \/ ~ForeignKeysHold(st, st[T], NewRow(st[T], cols, vals), fk)
    THEN [ok |-> FALSE, store |-> st]
    ELSE [ok |-> TRUE,
          store |-> [st EXCEPT ![T].rows = PlaceRow(st[T], NewRow(st[T], cols, vals)),
                               ![T].seq = SeqAfter(st[T], NewRow(st[T], cols, vals))]]

\* the first k elements of s, and s without them
RECURSIVE Take(_, _)
Take(s, k) ==
    IF k <= 0 \/ s = <<>> THEN <<>> ELSE <<Head(s)>> \o Take(Tail(s), k - 1)
RECURSIVE Skip(_, _)
Skip(s, k) ==
    IF k <= 0 \/ s = <<>> THEN s ELSE Skip(Tail(s), k - 1)

\* LIMIT limit OFFSET offset over rows: a negative LIMIT is no limit, a
\* negative OFFSET is 0
LimitOffset(rows, limit, offset) ==
    LET rest == Skip(rows, offset)
    IN IF limit < 0 THEN rest ELSE Take(rest, limit)

\* SELECT * FROM T [LIMIT ?] [OFFSET ?]: [ok, rows]
EngineSelect(st, T, limit, offset) ==
    IF ~EngineReadsName(T) \/ T \notin DOMAIN st
    THEN [ok |-> FALSE, rows |-> <<>>]
    ELSE [ok |-> TRUE, rows |-> LimitOffset(st[T].rows, limit, offset)]

\* sqlite_sequence, the table the engine makes with the first AUTOINCREMENT
\* table and keeps from then on; its rows are the seq fields of the tables
SqliteSequence ==
    <<"s", "q", "l", "i", "t", "e", "_", "s", "e", "q", "u", "e", "n", "c", "e">>
SequenceTable ==
    [cols |-> <<Col(<<"n", "a", "m", "e">>, Type("", <<>>)),
                Col(<<"s", "e", "q">>, Type("", <<>>))>>,
     rows |-> <<>>, seq |-> 0]

\* the engine compares column names without regard to the case of letters
SmallLetters ==
    <<"a","b","c","d","e","f","g","h","i","j","k","l","m",
      "n","o","p","q","r","s","t","u","v","w","x","y","z">>
CapitalLetters ==
    <<"A","B","C","D","E","F","G","H","I","J","K","L","M",
      "N","O","P","Q","R","S","T","U","V","W","X","Y","Z">>
FoldCase(name) ==
    [i \in 1..Len(name) |->
        IF name[i] \in UpperCase
        THEN SmallLetters[CHOOSE k \in 1..Len(CapitalLetters) : CapitalLetters[k] = name[i]]
        ELSE name[i]]
DistinctNames(names) ==
    \A i, j \in 1..Len(names) : i # j => FoldCase(names[i]) # FoldCase(names[j])

\* CREATE TABLE that puts the new definition in the place of an existing table
EngineCreateOrReplace(st, T, columns) ==
    IF \/ ~EngineReadsName(T)
       \/ \E i \in 1..Len(columns) : ~EngineReadsName(columns[i].name)
       \/ Len(columns) = 0
    THEN [ok |-> FALSE, store |-> st]
    ELSE [ok |-> TRUE,
          store |-> [n \in DOMAIN st \cup {T} |->
                        IF n = T THEN [cols |-> columns, rows |-> <<>>, seq |-> 0]
                        ELSE st[n]]]

\* CREATE TABLE IF NOT EXISTS T (columns): [ok, store]
EngineCreate(st, T, columns) ==
    IF \/ ~EngineReadsName(T)
       \/ \E i \in 1..Len(columns) : ~EngineReadsName(columns[i].name)
       \/ Len(columns) = 0
    THEN [ok |-> FALSE, store |-> st]
    ELSE IF T \in DOMAIN st
    THEN [ok |-> TRUE, store |-> st]
    ELSE IF ~DistinctNames([i \in 1..Len(columns) |-> columns[i].name])
    THEN [ok |-> FALSE, store |-> st]
    ELSE LET made == [cols |-> columns, rows |-> <<>>, seq |-> 0]
             internal == IF HasAutoincrement(made) THEN {SqliteSequence} ELSE {}
         IN [ok |-> TRUE,
             store |-> [n \in DOMAIN st \cup {T} \cup internal |->
                           IF n = T THEN made
                           ELSE IF n \in DOMAIN st THEN st[n]
                           ELSE SequenceTable]]

\* DROP TABLE T: [ok, store]
EngineDrop(st, T) ==
    IF ~EngineReadsName(T) \/ T \notin DOMAIN st
    THEN [ok |-> FALSE, store |-> st]
    ELSE [ok |-> TRUE, store |-> [n \in DOMAIN st \ {T} |-> st[n]]]

\* SELECT name FROM sqlite_master WHERE type='table' AND name='T': the name is
\* a string literal here, so every name this model uses is read as data
EngineCatalogHas(st, T) == T \in DOMAIN st

\* PRAGMA table_info(T): one descriptor per column, none for a missing table
EngineTableInfo(st, T) ==
    IF ~EngineReadsName(T) THEN [ok |-> FALSE, rows |-> <<>>]
    ELSE IF T \notin DOMAIN st THEN [ok |-> TRUE, rows |-> <<>>]
    ELSE [ok |-> TRUE,
          rows |-> [i \in 1..Len(st[T].cols) |->
                       [cid |-> i - 1, name |-> st[T].cols[i].name,
                        type |-> st[T].cols[i].type.base,
                        notnull |-> IF HasConstraint(st[T].cols[i].type, "NOT NULL")
                                    THEN 1 ELSE 0,
                        pk |-> IF IsRowid(st[T].cols[i]) THEN 1 ELSE 0]]]


\* the rows of T with column col equal to val (SELECT ... WHERE col = ?)
RECURSIVE Where(_, _, _)
Where(rows, col, val) ==
    IF rows = <<>> THEN <<>>
    ELSE (IF Head(rows)[col] = val THEN <<Head(rows)>> ELSE <<>>)
             \o Where(Tail(rows), col, val)

\* SELECT * FROM T WHERE col = ? with val bound: [ok, rows]
EngineSelectWhere(st, T, col, val) ==
    IF \/ ~EngineReadsName(T) \/ ~EngineReadsName(col)
       \/ T \notin DOMAIN st
    THEN [ok |-> FALSE, rows |-> <<>>]
    ELSE IF col \notin Range(ColNames(st[T]))
    THEN [ok |-> FALSE, rows |-> <<>>]
    ELSE [ok |-> TRUE,
          rows |-> Where(st[T].rows, col, ApplyAffinity(ColOf(st[T], col).type.base, val))]

\* INSERT ... ON CONFLICT(conflict) DO UPDATE SET col = excluded.col, ...:
\* [ok, store].  The conflict column must carry a uniqueness constraint; a
\* row with the new row's value there is updated in the listed columns,
\* otherwise the new row is inserted.  The rowid given to the new row is
\* used up either way.
EngineUpsert(st, T, cols, vals, conflict, fk) ==
    IF \/ ~EngineReadsName(T) \/ ~EngineReadsName(conflict)
       \/ \E i \in 1..Len(cols) : ~EngineReadsName(cols[i])
       \/ Len(cols) = 0
       \/ T \notin DOMAIN st
    THEN [ok |-> FALSE, store |-> st]
    ELSE IF \/ ~(Range(cols) \subseteq Range(ColNames(st[T])))
            \/ conflict \notin Range(ColNames(st[T]))
    THEN [ok |-> FALSE, store |-> st]
    ELSE LET table == st[T]
             ccol == ColOf(table, conflict)
             row == NewRow(table, cols, vals)
             hits == {i \in 1..Len(table.rows) :
                         /\ row[conflict].tag # "null"
                         /\ table.rows[i][conflict] = row[conflict]}
         IN IF ~(HasConstraint(ccol.type, "UNIQUE") \/ IsRowid(ccol))
               \/ \E c \in Range(table.cols) :
                      HasConstraint(c.type, "NOT NULL") /\ row[c.name].tag = "null"
            THEN [ok |-> FALSE, store |-> st]
            ELSE IF hits = {}
            THEN IF RowAllowed(table, row) /\ ForeignKeysHold(st, table, row, fk)
                 THEN [ok |-> TRUE,
                       store |-> [st EXCEPT ![T].rows = PlaceRow(table, row),
                                            ![T].seq = SeqAfter(table, row)]]
                 ELSE [ok |-> FALSE, store |-> st]
            ELSE LET i == CHOOSE h \in hits : TRUE
                     upd == [name \in DOMAIN table.rows[i] |->
                                IF name \in Range(cols) THEN row[name]
                                ELSE table.rows[i][name]]
                     others == [table EXCEPT !.rows =
                                   SubSeq(@, 1, i - 1) \o SubSeq(@, i + 1, Len(@))]
                 IN IF RowAllowed(others, upd) /\ ForeignKeysHold(st, table, upd, fk)
                    THEN [ok |-> TRUE,
                          store |-> [st EXCEPT ![T].rows[i] = upd,
                                               ![T].seq = SeqAfter(table, row)]]
                    ELSE [ok |-> FALSE, store |-> st]

-----------------------------------------------------------------------------
(* BunLiteDB: the operations as functions of the known-name set and the    *)
(* store.  Each gives [out, rows, stmts, store, known]: how the call ended, *)
(* the rows it returned, the statements it sent, and the store and the     *)
(* known-name set it leaves.                                               *)

Ok == [status |-> "ok", errType |-> "none"]
Fail(status, errType) == [status |-> status, errType |-> errType]

\* a statement handed to the engine: the table name and the other names put
\* into its text, and the values bound to its placeholders
Stmt(kind, table, names, params) ==
    [kind |-> kind, table |-> table, names |-> names, params |-> params]

Result(out, rows, sent, st, known) ==
    [out |-> out, rows |-> rows, stmts |-> sent, store |-> st, known |-> known]

\* validateTableName without the set lookup
validateTableNameUnregistered(known, tableName) ==
    IF validateSQLiteIdentifier(tableName) # "ok"
    THEN Fail("InvalidIdentifier", "SQLError")
    ELSE Ok

\* validateTableName without the identifier check (as DbConnector has it)
validateTableNameUnchecked(known, tableName) ==
    IF tableName \notin known THEN Fail("UnknownTable", "Error") ELSE Ok

\* validateTableName: the identifier check (SQLError), then the set lookup
\* (Error 'Invalid table name')
validateTableName(known, tableName) ==
    IF validateSQLiteIdentifier(tableName) # "ok"
    THEN Fail("InvalidIdentifier", "SQLError")
    ELSE IF tableName \notin known
    THEN Fail("UnknownTable", "Error")
    ELSE Ok

\* Object.keys and Object.values of a record, given as <<key, value>> pairs
\* in insertion order
Keys(rec) == [i \in 1..Len(rec) |-> rec[i][1]]
Values(rec) == [i \in 1..Len(rec) |-> rec[i][2]]
Reversed(s) == [i \in 1..Len(s) |-> s[Len(s) + 1 - i]]

\* getSchema that returns the descriptors of the key columns only
getSchemaOfKey(known, st, tableName) ==
    LET v == validateTableName(known, tableName)
        info == EngineTableInfo(st, tableName)
    IN IF v.status # "ok" THEN Result(v, <<>>, <<>>, st, known)
       ELSE Result(IF info.ok THEN Ok ELSE Fail("StatementFailed", "SQLiteError"),
                   SelectSeq(info.rows, LAMBDA d : d.pk = 1),
                   <<Stmt("PRAGMA table_info", tableName, <<>>, <<>>)>>,
                   st, known)

getSchema(known, st, tableName) ==
    LET v == validateTableName(known, tableName)
        info == EngineTableInfo(st, tableName)
    IN IF v.status # "ok" THEN Result(v, <<>>, <<>>, st, known)
       ELSE Result(IF info.ok THEN Ok ELSE Fail("StatementFailed", "SQLiteError"),
                   info.rows, <<Stmt("PRAGMA table_info", tableName, <<>>, <<>>)>>,
                   st, known)

\* createTable that validates the name of the first column only
createTableCheckingFirst(known, st, tableName, columns) ==
    LET v == validateTableName(known, tableName)
        names == [i \in 1..Len(columns) |-> columns[i].name]
        made == EngineCreate(st, tableName, columns)
    IN IF v.status # "ok" THEN Result(v, <<>>, <<>>, st, known)
       ELSE IF Len(names) >= 1 /\ validateSQLiteIdentifier(names[1]) # "ok"
       THEN Result(Fail("InvalidIdentifier", "SQLError"), <<>>, <<>>, st, known)
       ELSE Result(IF made.ok THEN Ok ELSE Fail("StatementFailed", "SQLError"),
                   <<>>, <<Stmt("CREATE TABLE IF NOT EXISTS", tableName, names, <<>>)>>,
                   made.store, known)

createTable(known, st, tableName, columns) ==
    LET v == validateTableName(known, tableName)
        names == [i \in 1..Len(columns) |-> columns[i].name]
        made == EngineCreate(st, tableName, columns)
    IN IF v.status # "ok" THEN Result(v, <<>>, <<>>, st, known)
       ELSE IF \E i \in 1..Len(names) : validateSQLiteIdentifier(names[i]) # "ok"
       THEN Result(Fail("InvalidIdentifier", "SQLError"), <<>>, <<>>, st, known)
       ELSE Result(IF made.ok THEN Ok ELSE Fail("StatementFailed", "SQLError"),
                   <<>>, <<Stmt("CREATE TABLE IF NOT EXISTS", tableName, names, <<>>)>>,
                   made.store, known)

\* insertRecord binding the values in the opposite order of the columns
insertRecordReversed(known, st, tableName, values, fk) ==
    LET v == validateTableName(known, tableName)
        done == EngineInsert(st, tableName, Keys(values), Reversed(Values(values)), fk)
    IN IF v.status # "ok" THEN Result(v, <<>>, <<>>, st, known)
       ELSE Result(IF done.ok THEN Ok ELSE Fail("StatementFailed", "SQLiteError"),
                   <<>>, <<Stmt("INSERT", tableName, Keys(values), Reversed(Values(values)))>>,
                   done.store, known)

\* insertRecord whose statement reports success and stores nothing
insertRecordLost(known, st, tableName, values, fk) ==
    LET v == validateTableName(known, tableName)
        done == EngineInsert(st, tableName, Keys(values), Values(values), fk)
    IN IF v.status # "ok" THEN Result(v, <<>>, <<>>, st, known)
       ELSE Result(IF done.ok THEN Ok ELSE Fail("StatementFailed", "SQLiteError"),
                   <<>>, <<Stmt("INSERT", tableName, Keys(values), Values(values))>>,
                   st, known)

insertRecord(known, st, tableName, values, fk) ==
    LET v == validateTableName(known, tableName)
        done == EngineInsert(st, tableName, Keys(values), Values(values), fk)
    IN IF v.status # "ok" THEN Result(v, <<>>, <<>>, st, known)
       ELSE Result(IF done.ok THEN Ok ELSE Fail("StatementFailed", "SQLiteError"),
                   <<>>, <<Stmt("INSERT", tableName, Keys(values), Values(values))>>,
                   done.store, known)

\* upsertRecord that leaves a row in conflict as it is (INSERT OR IGNORE)
upsertRecordKeepsOld(known, st, tableName, values, conflictColumn, fk) ==
    LET v == validateTableName(known, tableName)
        real == EngineUpsert(st, tableName, Keys(values), Values(values), conflictColumn,
                             fk)
        done == EngineInsert(st, tableName, Keys(values), Values(values), fk)
    IN IF v.status # "ok" THEN Result(v, <<>>, <<>>, st, known)
       ELSE Result(IF real.ok THEN Ok ELSE Fail("StatementFailed", "SQLiteError"),
                   <<>>,
                   <<Stmt("INSERT ON CONFLICT", tableName,
                          Keys(values) \o <<conflictColumn>>, Values(values))>>,
                   done.store, known)

upsertRecord(known, st, tableName, values, conflictColumn, fk) ==
    LET v == validateTableName(known, tableName)
        done == EngineUpsert(st, tableName, Keys(values), Values(values), conflictColumn,
                             fk)
    IN IF v.status # "ok" THEN Result(v, <<>>, <<>>, st, known)
       ELSE Result(IF done.ok THEN Ok ELSE Fail("StatementFailed", "SQLiteError"),
                   <<>>,
                   <<Stmt("INSERT ON CONFLICT", tableName,
                          Keys(values) \o <<conflictColumn>>, Values(values))>>,
                   done.store, known)

\* the optional limit argument: not given, or a number
NoLimit == [given |-> FALSE, value |-> 0]
Limit(n) == [given |-> TRUE, value |-> n]

\* if (limit): undefined and 0 are falsy
fetchAllRecords(known, st, tableName, limit) ==
    LET v == validateTableName(known, tableName)
        some == EngineSelect(st, tableName, limit.value, 0)
        all == EngineSelect(st, tableName, -1, 0)
    IN IF v.status # "ok" THEN Result(v, <<>>, <<>>, st, known)
       ELSE IF limit.given /\ limit.value # 0
       THEN Result(IF some.ok THEN Ok ELSE Fail("StatementFailed", "SQLiteError"),
                   some.rows,
                   <<Stmt("SELECT LIMIT", tableName, <<>>, <<IntV(limit.value)>>)>>,
                   st, known)
       ELSE Result(IF all.ok THEN Ok ELSE Fail("StatementFailed", "SQLiteError"),
                   all.rows, <<Stmt("SELECT", tableName, <<>>, <<>>)>>, st, known)

\* the condition is the text 'col = ?' with one value bound
fetchRecordsWithCondition(known, st, tableName, condition, values) ==
    LET v == validateTableName(known, tableName)
        found == EngineSelectWhere(st, tableName, condition, values[1])
    IN IF v.status # "ok" THEN Result(v, <<>>, <<>>, st, known)
       ELSE Result(IF found.ok THEN Ok ELSE Fail("StatementFailed", "SQLiteError"),
                   found.rows, <<Stmt("SELECT WHERE", tableName, <<>>, values)>>,
                   st, known)

\* fetchRecordsWithPagination with the offset of the page after
fetchRecordsWithPaginationNextPage(known, st, tableName, page, pageSize) ==
    LET v == validateTableName(known, tableName)
        offset == page * pageSize
        got == EngineSelect(st, tableName, pageSize, offset)
    IN IF v.status # "ok" THEN Result(v, <<>>, <<>>, st, known)
       ELSE IF page < 1 \/ pageSize < 1
       THEN Result(Fail("InvalidPagination", "Error"), <<>>, <<>>, st, known)
       ELSE Result(IF got.ok THEN Ok ELSE Fail("StatementFailed", "SQLiteError"),
                   got.rows,
                   <<Stmt("SELECT LIMIT OFFSET", tableName, <<>>,
                          <<IntV(pageSize), IntV(offset)>>)>>,
                   st, known)

\* fetchRecordsWithPagination that only refuses negative arguments
fetchRecordsWithPaginationFromZero(known, st, tableName, page, pageSize) ==
    LET v == validateTableName(known, tableName)
        offset == (page - 1) * pageSize
        got == EngineSelect(st, tableName, pageSize, offset)
    IN IF v.status # "ok" THEN Result(v, <<>>, <<>>, st, known)
       ELSE IF page < 0 \/ pageSize < 0
       THEN Result(Fail("InvalidPagination", "Error"), <<>>, <<>>, st, known)
       ELSE Result(IF got.ok THEN Ok ELSE Fail("StatementFailed", "SQLiteError"),
                   got.rows,
                   <<Stmt("SELECT LIMIT OFFSET", tableName, <<>>,
                          <<IntV(pageSize), IntV(offset)>>)>>,
                   st, known)

fetchRecordsWithPagination(known, st, tableName, page, pageSize) ==
    LET v == validateTableName(known, tableName)
        offset == (page - 1) * pageSize
        got == EngineSelect(st, tableName, pageSize, offset)
    IN IF v.status # "ok" THEN Result(v, <<>>, <<>>, st, known)
       ELSE IF page < 1 \/ pageSize < 1
       THEN Result(Fail("InvalidPagination", "Error"), <<>>, <<>>, st, known)
       ELSE Result(IF got.ok THEN Ok ELSE Fail("StatementFailed", "SQLiteError"),
                   got.rows,
                   <<Stmt("SELECT LIMIT OFFSET", tableName, <<>>,
                          <<IntV(pageSize), IntV(offset)>>)>>,
                   st, known)

\* deleteTable that leaves the name in the known-name set (as DbConnector does)
deleteTableKeepsName(known, st, tableName) ==
    LET v == validateTableName(known, tableName)
        look == Stmt("SELECT sqlite_master", tableName, <<>>, <<>>)
        gone == EngineDrop(st, tableName)
    IN IF v.status # "ok" THEN Result(v, <<>>, <<>>, st, known)
       ELSE IF EngineCatalogHas(st, tableName)
       THEN IF gone.ok
            THEN Result(Ok, <<>>, <<look, Stmt("DROP TABLE", tableName, <<>>, <<>>)>>,
                        gone.store, known)
            ELSE Result(Fail("StatementFailed", "SQLError"), <<>>,
                        <<look, Stmt("DROP TABLE", tableName, <<>>, <<>>)>>, st, known)
       ELSE Result(Ok, <<>>, <<look>>, st, known)

\* deleteTable: the catalog is asked first; an existing table is dropped and
\* its name taken from the known-name set, a missing one only warned about
deleteTable(known, st, tableName) ==
    LET v == validateTableName(known, tableName)
        look == Stmt("SELECT sqlite_master", tableName, <<>>, <<>>)
        gone == EngineDrop(st, tableName)
    IN IF v.status # "ok" THEN Result(v, <<>>, <<>>, st, known)
       ELSE IF EngineCatalogHas(st, tableName)
       THEN IF gone.ok
            THEN Result(Ok, <<>>, <<look, Stmt("DROP TABLE", tableName, <<>>, <<>>)>>,
                        gone.store, known \ {tableName})
            ELSE Result(Fail("StatementFailed", "SQLError"), <<>>,
                        <<look, Stmt("DROP TABLE", tableName, <<>>, <<>>)>>, st, known)
       ELSE Result(Ok, <<>>, <<look>>, st, known)

-----------------------------------------------------------------------------
(* DbConnector (src/index.ts): the other implementation, its operations as *)
(* functions of the known-name set and the store, like those of BunLiteDB. *)

\* validateTableName of DbConnector: the set lookup only
DbConnectorValidateTableName(known, tableName) ==
    IF tableName \notin known THEN Fail("UnknownTable", "Error") ELSE Ok

\* getSchema of DbConnector: the PRAGMA is sent without any validation
DbConnectorGetSchema(known, st, tableName) ==
    LET info == EngineTableInfo(st, tableName)
    IN Result(IF info.ok THEN Ok ELSE Fail("StatementFailed", "SQLiteError"),
              info.rows, <<Stmt("PRAGMA table_info", tableName, <<>>, <<>>)>>,
              st, known)

\* createTable of DbConnector: the column names are not validated
DbConnectorCreateTable(known, st, tableName, columns) ==
    LET v == DbConnectorValidateTableName(known, tableName)
        names == [i \in 1..Len(columns) |-> columns[i].name]
        made == EngineCreate(st, tableName, columns)
    IN IF v.status # "ok" THEN Result(v, <<>>, <<>>, st, known)
       ELSE Result(IF made.ok THEN Ok ELSE Fail("StatementFailed", "SQLError"),
                   <<>>, <<Stmt("CREATE TABLE IF NOT EXISTS", tableName, names, <<>>)>>,
                   made.store, known)

DbConnectorInsertRecord(known, st, tableName, values, fk) ==
    LET v == DbConnectorValidateTableName(known, tableName)
        done == EngineInsert(st, tableName, Keys(values), Values(values), fk)
    IN IF v.status # "ok" THEN Result(v, <<>>, <<>>, st, known)
       ELSE Result(IF done.ok THEN Ok ELSE Fail("StatementFailed", "SQLiteError"),
                   <<>>, <<Stmt("INSERT", tableName, Keys(values), Values(values))>>,
                   done.store, known)

DbConnectorUpsertRecord(known, st, tableName, values, conflictColumn, fk) ==
    LET v == DbConnectorValidateTableName(known, tableName)
        done == EngineUpsert(st, tableName, Keys(values), Values(values), conflictColumn,
                             fk)
    IN IF v.status # "ok" THEN Result(v, <<>>, <<>>, st, known)
       ELSE Result(IF done.ok THEN Ok ELSE Fail("StatementFailed", "SQLiteError"),
                   <<>>,
                   <<Stmt("INSERT ON CONFLICT", tableName,
                          Keys(values) \o <<conflictColumn>>, Values(values))>>,
                   done.store, known)

DbConnectorFetchAllRecords(known, st, tableName, limit) ==
    LET v == DbConnectorValidateTableName(known, tableName)
        some == EngineSelect(st, tableName, limit.value, 0)
        all == EngineSelect(st, tableName, -1, 0)
    IN IF v.status # "ok" THEN Result(v, <<>>, <<>>, st, known)
       ELSE IF limit.given /\ limit.value # 0
       THEN Result(IF some.ok THEN Ok ELSE Fail("StatementFailed", "SQLiteError"),
                   some.rows,
                   <<Stmt("SELECT LIMIT", tableName, <<>>, <<IntV(limit.value)>>)>>,
                   st, known)
       ELSE Result(IF all.ok THEN Ok ELSE Fail("StatementFailed", "SQLiteError"),
                   all.rows, <<Stmt("SELECT", tableName, <<>>, <<>>)>>, st, known)

DbConnectorFetchRecordsWithCondition(known, st, tableName, condition, values) ==
    LET v == DbConnectorValidateTableName(known, tableName)
        found == EngineSelectWhere(st, tableName, condition, values[1])
    IN IF v.status # "ok" THEN Result(v, <<>>, <<>>, st, known)
       ELSE Result(IF found.ok THEN Ok ELSE Fail("StatementFailed", "SQLiteError"),
                   found.rows, <<Stmt("SELECT WHERE", tableName, <<>>, values)>>,
                   st, known)

\* deleteTable of DbConnector: the table is dropped, the name stays in the set
DbConnectorDeleteTable(known, st, tableName) ==
    LET v == DbConnectorValidateTableName(known, tableName)
        look == Stmt("SELECT sqlite_master", tableName, <<>>, <<>>)
        gone == EngineDrop(st, tableName)
    IN IF v.status # "ok" THEN Result(v, <<>>, <<>>, st, known)
       ELSE IF EngineCatalogHas(st, tableName)
       THEN IF gone.ok
            THEN Result(Ok, <<>>, <<look, Stmt("DROP TABLE", tableName, <<>>, <<>>)>>,
                        gone.store, known)
            ELSE Result(Fail("StatementFailed", "SQLError"), <<>>,
                        <<look, Stmt("DROP TABLE", tableName, <<>>, <<>>)>>, st, known)
       ELSE Result(Ok, <<>>, <<look>>, st, known)

-----------------------------------------------------------------------------
(* recordsIterator: the generator object between two pulls.  state is      *)
(* "created" before the first pull (no code of the body has run),          *)
(* "suspended" at the yield of batch[idx], then "done" or "failed", or      *)
(* "closed" when the consumer left it.                                     *)
(* yielded collects what the consumer was given; mutated tells whether the *)
(* table changed since the traversal's first fetch; fetches counts the     *)
(* batch statements sent; atStart is the number of records the table held  *)
(* at the first fetch.                                                     *)

IdleIter ==
    [state |-> "idle", conn |-> "-", table |-> <<>>, batchSize |-> 0, offset |-> 0,
     batch |-> <<>>, idx |-> 0, yielded |-> <<>>, knownAtCall |-> FALSE,
     mutated |-> FALSE, fetches |-> 0, atStart |-> 0]

\* a generator that has sent its first batch statement when it is made
NewIterEager(c, tableName, batchSize, known) ==
    [IdleIter EXCEPT !.state = "created", !.conn = c, !.table = tableName,
                     !.batchSize = batchSize, !.knownAtCall = tableName \in known,
                     !.fetches = 1]

NewIter(c, tableName, batchSize, known) ==
    [IdleIter EXCEPT !.state = "created", !.conn = c, !.table = tableName,
                     !.batchSize = batchSize, !.knownAtCall = tableName \in known]

BatchStmt(it, offset) ==
    Stmt("SELECT LIMIT OFFSET", it.table, <<>>, <<IntV(it.batchSize), IntV(offset)>>)

\* const batch = ...all(batchSize, offset); if (batch.length === 0) break;
\* otherwise the first record of the batch is yielded
Fetched(it, st, offset) ==
    LET got == EngineSelect(st, it.table, it.batchSize, offset)
        at == [it EXCEPT !.offset = offset, !.fetches = @ + 1,
                         !.atStart = IF it.state = "created"
                                     THEN (IF it.table \in DOMAIN st
                                           THEN Len(st[it.table].rows) ELSE 0)
                                     ELSE @]
    IN IF ~got.ok
       THEN [it |-> [at EXCEPT !.state = "failed", !.batch = <<>>, !.idx = 0],
             out |-> Fail("StatementFailed", "SQLiteError"), rows |-> <<>>,
             stmts |-> <<BatchStmt(it, offset)>>]
       ELSE IF Len(got.rows) = 0
       THEN [it |-> [at EXCEPT !.state = "done", !.batch = <<>>, !.idx = 0],
             out |-> Ok, rows |-> <<>>, stmts |-> <<BatchStmt(it, offset)>>]
       ELSE [it |-> [at EXCEPT !.state = "suspended", !.batch = got.rows, !.idx = 1,
                               !.yielded = Append(@, got.rows[1])],
             out |-> Ok, rows |-> <<got.rows[1]>>, stmts |-> <<BatchStmt(it, offset)>>]

\* recordsIterator that advances the offset by one batch too many
recordsIteratorSkipping(it, known, st) ==
    IF it.state = "created"
    THEN LET v == validateTableName(known, it.table)
         IN IF v.status # "ok"
            THEN [it |-> [it EXCEPT !.state = "failed"], out |-> v, rows |-> <<>>,
                  stmts |-> <<>>]
            ELSE Fetched(it, st, 0)
    ELSE IF it.idx < Len(it.batch)
    THEN [it |-> [it EXCEPT !.idx = @ + 1, !.yielded = Append(@, it.batch[it.idx + 1])],
          out |-> Ok, rows |-> <<it.batch[it.idx + 1]>>, stmts |-> <<>>]
    ELSE IF Len(it.batch) < it.batchSize
    THEN [it |-> [it EXCEPT !.state = "done", !.batch = <<>>, !.idx = 0],
          out |-> Ok, rows |-> <<>>, stmts |-> <<>>]
    ELSE Fetched(it, st, it.offset + it.batchSize + 1)

\* recordsIterator with let offset = 1
recordsIteratorFromOne(it, known, st) ==
    IF it.state = "created"
    THEN LET v == validateTableName(known, it.table)
         IN IF v.status # "ok"
            THEN [it |-> [it EXCEPT !.state = "failed"], out |-> v, rows |-> <<>>,
                  stmts |-> <<>>]
            ELSE Fetched(it, st, 1)
    ELSE IF it.idx < Len(it.batch)
    THEN [it |-> [it EXCEPT !.idx = @ + 1, !.yielded = Append(@, it.batch[it.idx + 1])],
          out |-> Ok, rows |-> <<it.batch[it.idx + 1]>>, stmts |-> <<>>]
    ELSE IF Len(it.batch) < it.batchSize
    THEN [it |-> [it EXCEPT !.state = "done", !.batch = <<>>, !.idx = 0],
          out |-> Ok, rows |-> <<>>, stmts |-> <<>>]
    ELSE Fetched(it, st, it.offset + it.batchSize)

\* recordsIterator without 'if (batch.length < batchSize) break': it fetches
\* until a batch is empty
recordsIteratorUntilEmpty(it, known, st) ==
    IF it.state = "created"
    THEN LET v == validateTableName(known, it.table)
         IN IF v.status # "ok"
            THEN [it |-> [it EXCEPT !.state = "failed"], out |-> v, rows |-> <<>>,
                  stmts |-> <<>>]
            ELSE Fetched(it, st, 0)
    ELSE IF it.idx < Len(it.batch)
    THEN [it |-> [it EXCEPT !.idx = @ + 1, !.yielded = Append(@, it.batch[it.idx + 1])],
          out |-> Ok, rows |-> <<it.batch[it.idx + 1]>>, stmts |-> <<>>]
    ELSE Fetched(it, st, it.offset + it.batchSize)

\* one pull (next()) of the generator: the body runs to its next yield, to
\* its end or to a throw
recordsIterator(it, known, st) ==
    IF it.state = "created"
    THEN LET v == validateTableName(known, it.table)
         IN IF v.status # "ok"
            THEN [it |-> [it EXCEPT !.state = "failed"], out |-> v, rows |-> <<>>,
                  stmts |-> <<>>]
            ELSE Fetched(it, st, 0)
    ELSE IF it.idx < Len(it.batch)
    THEN [it |-> [it EXCEPT !.idx = @ + 1, !.yielded = Append(@, it.batch[it.idx + 1])],
          out |-> Ok, rows |-> <<it.batch[it.idx + 1]>>, stmts |-> <<>>]
    ELSE IF Len(it.batch) < it.batchSize
    THEN [it |-> [it EXCEPT !.state = "done", !.batch = <<>>, !.idx = 0],
          out |-> Ok, rows |-> <<>>, stmts |-> <<>>]
    ELSE Fetched(it, st, it.offset + it.batchSize)

-----------------------------------------------------------------------------
(* Construction                                                            *)

Conns == {"A", "B"}
IterIds == {1, 2}

\* name LIKE 'sqlite_%': 'sqlite' in any case, one more character, then any
LikeSqlitePrefix(name) ==
    /\ Len(name) >= 7
    /\ name[1] \in {"s", "S"} /\ name[2] \in {"q", "Q"} /\ name[3] \in {"l", "L"}
    /\ name[4] \in {"i", "I"} /\ name[5] \in {"t", "T"} /\ name[6] \in {"e", "E"}

getExistingTableNames(st) == {n \in DOMAIN st : ~LikeSqlitePrefix(n)}

\* tableNames ? new Set(tableNames) : new Set(this.getExistingTableNames())
Constructor(st, list) ==
    IF list.given THEN list.names ELSE getExistingTableNames(st)

Explicit(names) == [given |-> TRUE, names |-> names]
Inferred == [given |-> FALSE, names |-> {}]

-----------------------------------------------------------------------------
(* The inputs of the calls                                                 *)

TableInputs == {Users, Posts, BadTable}

UsersCols ==
    <<Col(ColId, Type("INTEGER", <<"PRIMARY KEY", "AUTOINCREMENT">>)),
      Col(ColName, Type("TEXT", <<"UNIQUE">>)),
      Col(ColQty, Type("INTEGER", <<"NOT NULL">>))>>
BadCols ==
    <<Col(ColId, Type("INTEGER", <<"PRIMARY KEY", "AUTOINCREMENT">>)),
      Col(BadCol, Type("INTEGER", <<>>))>>
ColumnLists == {UsersCols, BadCols}

RecNameQty == <<(<<ColName, TextV("x")>>), (<<ColQty, IntV(2)>>)>>
RecQtyName == <<(<<ColQty, IntV(2)>>), (<<ColName, TextV("x")>>)>>
RecQtyText == <<(<<ColQty, TextV("7")>>)>>
RecBadKey == <<(<<BadCol, IntV(1)>>)>>
RecNoCol == <<(<<NoCol, IntV(1)>>)>>
Records == {RecNameQty, RecQtyName, RecQtyText, RecBadKey, RecNoCol}
UpsertRecords == {RecNameQty, RecBadKey}

\* records for upserts on the conflict column nm: two with nm = 'x', one with
\* another name, one with nm = null, one without nm, one with text for q
RecNameQty3 == <<(<<ColName, TextV("x")>>), (<<ColQty, IntV(3)>>)>>
RecOtherName == <<(<<ColQty, IntV(2)>>), (<<ColName, TextV("y")>>)>>
RecNullName == <<(<<ColName, NullV>>), (<<ColQty, IntV(2)>>)>>
RecNameQtyText == <<(<<ColName, TextV("x")>>), (<<ColQty, TextV("7")>>)>>
UpsertInputs ==
    {RecNameQty, RecNameQty3, RecOtherName, RecNullName, RecQtyText, RecNameQtyText}

\* the Posts table of the foreign-key test, and records for it that refer to
\* the users 1 and 2 and to none
ColUserId == <<"u", "i", "d">>
PostsCols ==
    <<Col(ColId, Type("INTEGER", <<"PRIMARY KEY", "AUTOINCREMENT">>)),
      ColRef(ColUserId, Type("INTEGER", <<>>), Users, ColId)>>
RecPostOfUser(n) == <<(<<ColUserId, IntV(n)>>)>>
RecPostOfNone == <<(<<ColUserId, NullV>>)>>
PostRecords == {RecPostOfUser(1), RecPostOfUser(2), RecPostOfNone}
ForeignKeyModes == {"ON", "OFF"}

\* column lists for createTable: two that every engine takes, one with the
\* names q and Q, one with no column, and three with a name that is no
\* identifier, in the last (BadCols), the first and a middle position
DupCols ==
    <<Col(ColQty, Type("INTEGER", <<>>)), Col(<<"Q">>, Type("TEXT", <<>>))>>
NoCols == <<>>
BadFirstCols ==
    <<Col(BadCol, Type("INTEGER", <<>>)), Col(ColQty, Type("INTEGER", <<>>))>>
BadMiddleCols ==
    <<Col(ColId, Type("INTEGER", <<"PRIMARY KEY", "AUTOINCREMENT">>)),
      Col(BadCol, Type("INTEGER", <<>>)),
      Col(ColQty, Type("INTEGER", <<>>))>>
CreateLists ==
    {UsersCols, PostsCols, DupCols, NoCols, BadCols, BadFirstCols, BadMiddleCols}

ConflictColumns == {ColName, BadCol}
Limits == {NoLimit, Limit(0), Limit(1)}
Pages == 0..MaxPage
BatchSizes == 1..MaxBatch

\* the stores a connection may be opened on: a new one, or one that holds
\* the Users table already
EmptyStore == [n \in {} |-> 0]
UsersStore ==
    [n \in {Users, SqliteSequence} |->
        IF n = Users THEN [cols |-> UsersCols, rows |-> <<>>, seq |-> 0]
        ELSE SequenceTable]
InitStores == {EmptyStore, UsersStore}
InitLists == {Explicit({Users, Posts}), Explicit({Users, BadTable}), Inferred}

-----------------------------------------------------------------------------
(* The state machine                                                       *)

NoCall ==
    [op |-> "none", conn |-> "-", table |-> <<>>, status |-> "ok", errType |-> "none",
     rows |-> <<>>, n1 |-> 0, n2 |-> 0, rec |-> <<>>, known |-> FALSE]

Call(op, c, tableName, out, rows, n1, n2, rec, known) ==
    [op |-> op, conn |-> c, table |-> tableName, status |-> out.status,
     errType |-> out.errType, rows |-> rows, n1 |-> n1, n2 |-> n2, rec |-> rec,
     known |-> known]

TableOf(st, tableName) ==
    IF tableName \in DOMAIN st THEN st[tableName]
    ELSE [cols |-> <<>>, rows |-> <<>>, seq |-> 0]

\* a traversal that has begun, and whose table a call changes, has seen a
\* mutation
MarkMutated(its, st, st2) ==
    [i \in IterIds |->
        IF its[i].state \in {"suspended", "done"} /\ TableOf(st, its[i].table) # TableOf(st2, its[i].table)
        THEN [its[i] EXCEPT !.mutated = TRUE]
        ELSE its[i]]

\* the effect of a call when the connections hold one known-name set together
CommitShared(c, op, tableName, r, n1, n2, rec) ==
    /\ tableNames' = [cc \in Conns |-> r.known]
    /\ store' = r.store
    /\ iters' = MarkMutated(iters, store, r.store)
    /\ last' = Call(op, c, tableName, r.out, r.rows, n1, n2, rec,
                    tableName \in tableNames[c])
    /\ stmts' = r.stmts
    /\ dropped' = [dropped EXCEPT ![c] =
                      IF op = "deleteTable" /\ tableName \in DOMAIN store
                                            /\ tableName \notin DOMAIN r.store
                      THEN @ \cup {tableName} ELSE @]
    /\ UNCHANGED <<fkMode, ident, identResult>>

\* the effect of a synchronous call of connection c that ended as r
Commit(c, op, tableName, r, n1, n2, rec) ==
    /\ tableNames' = [tableNames EXCEPT ![c] = r.known]
    /\ store' = r.store
    /\ iters' = MarkMutated(iters, store, r.store)
    /\ last' = Call(op, c, tableName, r.out, r.rows, n1, n2, rec,
                    tableName \in tableNames[c])
    /\ stmts' = r.stmts
    /\ dropped' = [dropped EXCEPT ![c] =
                      IF op = "deleteTable" /\ tableName \in DOMAIN store
                                            /\ tableName \notin DOMAIN r.store
                      THEN @ \cup {tableName} ELSE @]
    /\ UNCHANGED <<fkMode, ident, identResult>>

\* the connections after construction, no call made yet
InitConnections ==
    /\ store \in InitStores
    /\ \E list \in InitLists :
          tableNames = [c \in Conns |->
                           IF c = "A" THEN Constructor(store, list)
                           ELSE Constructor(store, Explicit({Users, Posts}))]
    /\ iters = [i \in IterIds |-> IdleIter]
    /\ last = NoCall
    /\ stmts = <<>>
    /\ dropped = [c \in Conns |-> {}]
    /\ fkMode = [c \in Conns |-> "OFF"]
    /\ identResult = "none"

Init == InitConnections /\ ident = <<>>

ValidateTableName(c, tableName) ==
    Commit(c, "validateTableName", tableName,
           Result(validateTableName(tableNames[c], tableName), <<>>, <<>>, store,
                  tableNames[c]),
           0, 0, <<>>)

GetSchema(c, tableName) ==
    Commit(c, "getSchema", tableName, getSchema(tableNames[c], store, tableName),
           0, 0, <<>>)

CreateTable(c, tableName, columns) ==
    Commit(c, "createTable", tableName,
           createTable(tableNames[c], store, tableName, columns), 0, 0, <<>>)

\* the rows of the tables named
RECURSIVE RowCount(_, _)
RowCount(st, names) ==
    IF names = {} THEN 0
    ELSE LET n == CHOOSE m \in names : TRUE
         IN Len(st[n].rows) + RowCount(st, names \ {n})

\* the store holds MaxRows rows at most, with rowids up to MaxRows
HasRoom(tableName) ==
    /\ RowCount(store, DOMAIN store) < MaxRows
    /\ tableName \in DOMAIN store => store[tableName].seq < MaxRows

InsertRecord(c, tableName, values) ==
    /\ HasRoom(tableName)
    /\ Commit(c, "insertRecord", tableName,
              insertRecord(tableNames[c], store, tableName, values, fkMode[c]),
              0, 0, values)

UpsertRecord(c, tableName, values, conflictColumn) ==
    /\ HasRoom(tableName)
    /\ Commit(c, "upsertRecord", tableName,
              upsertRecord(tableNames[c], store, tableName, values, conflictColumn,
                           fkMode[c]),
              0, 0, values)

\* setForeignKeyMode: the PRAGMA sets the mode of the caller's connection
SetForeignKeyMode(c, mode) ==
    /\ fkMode' = [fkMode EXCEPT ![c] = mode]
    /\ last' = Call("setForeignKeyMode", c, <<>>, Ok, <<>>,
                    IF mode = "ON" THEN 1 ELSE 0, 0, <<>>, FALSE)
    /\ stmts' = <<Stmt("PRAGMA foreign_keys", <<>>, <<>>, <<>>)>>
    /\ UNCHANGED <<tableNames, store, iters, dropped, ident, identResult>>

FetchAllRecords(c, tableName, limit) ==
    Commit(c, "fetchAllRecords", tableName,
           fetchAllRecords(tableNames[c], store, tableName, limit),
           IF limit.given THEN 1 ELSE 0, limit.value, <<>>)

FetchRecordsWithCondition(c, tableName, condition, values) ==
    Commit(c, "fetchRecordsWithCondition", tableName,
           fetchRecordsWithCondition(tableNames[c], store, tableName, condition, values),
           0, 0, <<>>)

FetchRecordsWithPagination(c, tableName, page, pageSize) ==
    Commit(c, "fetchRecordsWithPagination", tableName,
           fetchRecordsWithPagination(tableNames[c], store, tableName, page, pageSize),
           page, pageSize, <<>>)

DeleteTable(c, tableName) ==
    Commit(c, "deleteTable", tableName, deleteTable(tableNames[c], store, tableName),
           0, 0, <<>>)

\* db.recordsIterator(tableName, batchSize): the generator object is made,
\* none of its body runs
IterCreate(i, c, tableName, batchSize) ==
    /\ iters[i].state \in {"idle", "done", "failed"}
    /\ iters' = [iters EXCEPT ![i] = NewIter(c, tableName, batchSize, tableNames[c])]
    /\ UNCHANGED <<tableNames, store, last, stmts, dropped, fkMode, ident, identResult>>

\* the consumer pulls the next record
IterPull(i) ==
    /\ iters[i].state \in {"created", "suspended"}
    /\ LET it == iters[i]
           r == recordsIterator(it, tableNames[it.conn], store)
       IN /\ iters' = [iters EXCEPT ![i] = r.it]
          /\ last' = Call(IF it.state = "created" THEN "recordsIterator"
                          ELSE "recordsIterator.next",
                          it.conn, it.table, r.out, r.rows, it.batchSize, i, <<>>,
                          it.knownAtCall)
          /\ stmts' = r.stmts
    /\ UNCHANGED <<tableNames, store, dropped, fkMode, ident, identResult>>

\* the consumer stops pulling (break in for await, or return()): the
\* generator is closed where it stands; the body has no finally block, so
\* nothing of it runs
IterReturn(i) ==
    /\ iters[i].state \in {"created", "suspended"}
    /\ iters' = [iters EXCEPT ![i] = [@ EXCEPT !.state = "closed"]]
    /\ last' = Call("recordsIterator.return", iters[i].conn, iters[i].table, Ok, <<>>,
                    iters[i].batchSize, i, <<>>, iters[i].knownAtCall)
    /\ stmts' = <<>>
    /\ UNCHANGED <<tableNames, store, dropped, fkMode, ident, identResult>>

\* validateSQLiteIdentifier called on its own, with the string ident
ValidateIdentifier ==
    /\ identResult = "none"
    /\ identResult' = validateSQLiteIdentifier(ident)
    /\ UNCHANGED <<tableNames, store, iters, last, stmts, dropped, fkMode, ident>>

\* the synchronous calls of connection c, with their arguments drawn from
\* the given sets
Calls(c, tables, lists, records, upserts, conflicts, limits, pages) ==
    \E tableName \in tables :
        \/ ValidateTableName(c, tableName)
        \/ GetSchema(c, tableName)
        \/ \E columns \in lists : CreateTable(c, tableName, columns)
        \/ \E values \in records : InsertRecord(c, tableName, values)
        \/ \E values \in upserts, conflictColumn \in conflicts :
              UpsertRecord(c, tableName, values, conflictColumn)
        \/ \E limit \in limits : FetchAllRecords(c, tableName, limit)
        \/ FetchRecordsWithCondition(c, tableName, ColQty, <<IntV(7)>>)
        \/ \E page \in pages, pageSize \in pages :
              FetchRecordsWithPagination(c, tableName, page, pageSize)
        \/ DeleteTable(c, tableName)

\* one connection, the calls with all their inputs
Next ==
    Calls("A", TableInputs, ColumnLists, Records, UpsertRecords, ConflictColumns,
          Limits, Pages)

Spec == Init /\ [][Next]_vars

\* one connection with a traversal: the calls with few inputs, and the
\* generator made and pulled
NextIter ==
    \/ Calls("A", {Users, Posts}, {UsersCols}, {RecQtyText}, {RecQtyText}, {ColName},
             {NoLimit}, 1..1)
    \/ \E tableName \in {Users, BadTable}, batchSize \in BatchSizes :
          IterCreate(1, "A", tableName, batchSize)
    \/ IterPull(1)

SpecIter == Init /\ [][NextIter]_vars

\* the Users table after n inserts of {q: '7'}
RECURSIVE Filled(_)
Filled(n) ==
    IF n = 0 THEN UsersStore
    ELSE EngineInsert(Filled(n - 1), Users, Keys(RecQtyText), Values(RecQtyText),
                      "OFF").store

\* a connection on a Users table of 0..MaxRows records
InitFilled ==
    /\ store \in {Filled(n) : n \in 0..MaxRows}
    /\ tableNames = [c \in Conns |-> Constructor(store, Explicit({Users, Posts}))]
    /\ iters = [i \in IterIds |-> IdleIter]
    /\ last = NoCall
    /\ stmts = <<>>
    /\ dropped = [c \in Conns |-> {}]
    /\ fkMode = [c \in Conns |-> "OFF"]
    /\ ident = <<>>
    /\ identResult = "none"

\* several traversals of the table on one connection, their pulls in any
\* order, and no call that changes the table
NextPar ==
    \E i \in IterIds :
        \/ \E batchSize \in BatchSizes : IterCreate(i, "A", Users, batchSize)
        \/ IterPull(i)

SpecPar == InitFilled /\ [][NextPar]_vars

\* the connections opened on one store, their inserts and fetches in any
\* order; A inserts records with a name, B records without one
RecordsOf(c) ==
    IF c = "A" THEN {RecNameQty, RecOtherName, RecNoCol} ELSE {RecQtyText, RecNoCol}

NextShared ==
    \E c \in Conns :
        \/ \E values \in RecordsOf(c) : InsertRecord(c, Users, values)
        \/ FetchAllRecords(c, Users, NoLimit)

SpecShared == Init /\ [][NextShared]_vars

\* the connections on a store that holds Users and Posts, as the foreign-key
\* test makes them
InitPosts ==
    /\ store = EngineCreate(UsersStore, Posts, PostsCols).store
    /\ tableNames = [c \in Conns |-> Constructor(store, Explicit({Users, Posts}))]
    /\ iters = [i \in IterIds |-> IdleIter]
    /\ last = NoCall
    /\ stmts = <<>>
    /\ dropped = [c \in Conns |-> {}]
    /\ fkMode = [c \in Conns |-> "OFF"]
    /\ ident = <<>>
    /\ identResult = "none"

\* parents and children inserted under either foreign-key mode
NextForeignKeys ==
    \E c \in Conns :
        \/ \E mode \in ForeignKeyModes : SetForeignKeyMode(c, mode)
        \/ InsertRecord(c, Users, RecQtyText)
        \/ \E values \in PostRecords : InsertRecord(c, Posts, values)
        \/ FetchAllRecords(c, Posts, NoLimit)

SpecForeignKeys == InitPosts /\ [][NextForeignKeys]_vars

\* a user table named 'sqlitex', and the stores a connection may find: a
\* new one, one with Users, one with Users and sqlitex
SqliteX == <<"s", "q", "l", "i", "t", "e", "x">>
SqliteXStore ==
    EngineCreate(UsersStore, SqliteX, <<Col(ColQty, Type("INTEGER", <<>>))>>).store
FoundStores == {EmptyStore, UsersStore, SqliteXStore}

\* connection A built without a table list and connection B with one
InitConstructed ==
    /\ store \in FoundStores
    /\ tableNames = [c \in Conns |->
                        IF c = "A" THEN Constructor(store, Inferred)
                        ELSE Constructor(store, Explicit({Users, Posts}))]
    /\ iters = [i \in IterIds |-> IdleIter]
    /\ last = NoCall
    /\ stmts = <<>>
    /\ dropped = [c \in Conns |-> {}]
    /\ fkMode = [c \in Conns |-> "OFF"]
    /\ ident = <<>>
    /\ identResult = "none"

NextConstructed ==
    \E c \in Conns, tableName \in {Users, Posts, SqliteX, SqliteSequence} :
        \/ ValidateTableName(c, tableName)
        \/ InsertRecord(c, tableName, RecQtyText)
        \/ FetchAllRecords(c, tableName, NoLimit)

SpecConstructed == InitConstructed /\ [][NextConstructed]_vars

\* tables created, created again, described and filled
NextCreate ==
    \E tableName \in {Users, Posts} :
        \/ \E columns \in CreateLists : CreateTable("A", tableName, columns)
        \/ GetSchema("A", tableName)
        \/ InsertRecord("A", tableName, RecQtyText)
        \/ FetchAllRecords("A", tableName, NoLimit)

SpecCreate == Init /\ [][NextCreate]_vars

\* the calls made with values that differ and names that agree
NextValues ==
    \/ Calls("A", {Users}, {UsersCols}, {RecNameQty, RecNameQty3, RecQtyText},
             {RecNameQty, RecNameQty3}, {ColName}, Limits, Pages)
    \/ FetchRecordsWithCondition("A", Users, ColQty, <<IntV(2)>>)

SpecValues == Init /\ [][NextValues]_vars

\* traversals pulled, left early and started again while records are added
NextLazy ==
    \/ \E i \in IterIds :
          \/ \E batchSize \in BatchSizes : IterCreate(i, "A", Users, batchSize)
          \/ IterPull(i)
          \/ IterReturn(i)
    \/ InsertRecord("A", Users, RecQtyText)

SpecLazy == InitFilled /\ [][NextLazy]_vars

\* two connections on one store that create, fill, read and drop its tables
NextPrivate ==
    \E c \in Conns, tableName \in {Users, Posts} :
        \/ CreateTable(c, tableName, UsersCols)
        \/ InsertRecord(c, tableName, RecQtyText)
        \/ FetchAllRecords(c, tableName, NoLimit)
        \/ DeleteTable(c, tableName)

SpecPrivate == Init /\ [][NextPrivate]_vars

\* traversals with any integer as batch size, none of them checked by the
\* code; a traversal is pulled until it has yielded one record more than
\* the table holds
AnyBatchSizes == {-2, -1, 0} \cup BatchSizes

NextAnyBatch ==
    \E i \in IterIds :
        \/ \E batchSize \in AnyBatchSizes : IterCreate(i, "A", Users, batchSize)
        \/ /\ Len(iters[i].yielded) <= Len(TableOf(store, iters[i].table).rows)
           /\ IterPull(i)

SpecAnyBatch == InitFilled /\ [][NextAnyBatch]_vars

\* one connection upserting into Users on the conflict column nm
NextUpsert ==
    \/ \E values \in UpsertInputs : UpsertRecord("A", Users, values, ColName)
    \/ FetchAllRecords("A", Users, NoLimit)

SpecUpsert == Init /\ [][NextUpsert]_vars

\* the identifier validator on every string of up to MaxNameLen characters
ProbeChars == {"a", "Z", "7", "_", "$", " ", ";", ".", "-", "@", "'", "\n"}
ProbeNames == UNION {[1..n -> ProbeChars] : n \in 0..MaxNameLen}

InitIdent == InitConnections /\ ident \in ProbeNames

NextIdent == ValidateIdentifier

SpecIdent == InitIdent /\ [][NextIdent]_vars

-----------------------------------------------------------------------------
(* Properties.  The identifier form is stated here on its own, character   *)
(* by character, and not through the regular expression of the code.       *)

IdentifierForm(name) ==
    /\ name # <<>>
    /\ Head(name) \in LowerCase \cup UpperCase \cup {"_"}
    /\ \A i \in 2..Len(name) :
          name[i] \in LowerCase \cup UpperCase \cup Digits \cup {"_", "$"}

\* the operations that read or write a table's data or definition
DataOps ==
    {"getSchema", "createTable", "insertRecord", "upsertRecord", "fetchAllRecords",
     "fetchRecordsWithCondition", "fetchRecordsWithPagination", "recordsIterator",
     "recordsIterator.next", "deleteTable"}

\* C1: every statement a public data operation executes names the table the
\* operation was called with, and that name is of identifier form and was in
\* the connection's known-name set when the operation was called; this holds
\* after any sequence of operations, those that changed the set included.
C1_StatementsNameKnownTable ==
    \A i \in 1..Len(stmts) :
        /\ last.op \in DataOps
        /\ stmts[i].table = last.table
        /\ IdentifierForm(last.table)
        /\ last.known

\* C1 witness: after DROP TABLE took a name from the set, an insert into
\* another table has sent its statement.
C1_Witness ==
    /\ dropped["A"] = {Users}
    /\ last.op = "insertRecord" /\ last.table = Posts /\ last.status = "ok"
    /\ Len(stmts) = 1

\* C2: every name a statement's text is assembled from (the table name, the
\* column names of createTable, the record keys of insertRecord and
\* upsertRecord, and the conflict column) is of identifier form, so a call
\* with a record key or conflict column that is not sends no statement.
C2_EveryInterpolatedNameValidated ==
    \A i \in 1..Len(stmts) :
        /\ IdentifierForm(stmts[i].table)
        /\ \A j \in 1..Len(stmts[i].names) : IdentifierForm(stmts[i].names[j])

\* C3: the identifier validator accepts a string exactly when it is of
\* identifier form; the empty string, a leading digit, and any whitespace,
\* ';', '.', '-', '@' or quote in it are rejected; the call leaves the
\* known-name sets and the store as they were.
C3_ValidatorAcceptsIdentifierFormOnly ==
    [][identResult' # identResult =>
          /\ (identResult' = "ok") <=> IdentifierForm(ident)
          /\ identResult' \in {"ok", "SQLError"}
          /\ ident = <<>> => identResult' = "SQLError"
          /\ (ident # <<>> /\ Head(ident) \in Digits) => identResult' = "SQLError"
          /\ (\E i \in 1..Len(ident) : ident[i] \in {" ", "\n", ";", ".", "-", "@", "'"})
                => identResult' = "SQLError"
          /\ UNCHANGED <<tableNames, store, ident>>]_vars

\* C3 witness: a string that starts as an identifier and carries a ';'
\* further on has been rejected.
C3_Witness ==
    /\ identResult = "SQLError"
    /\ Len(ident) = 3 /\ ident[1] = "a" /\ ident[2] = "Z" /\ ident[3] = ";"

\* C4: validateTableName succeeds exactly when the name is of identifier
\* form and in the known-name set; it fails for a name that is not of
\* identifier form even when that string was put into the set at
\* construction.
C4_TableNameValidIffFormAndKnown ==
    last.op = "validateTableName" =>
        /\ (last.status = "ok") <=>
              (IdentifierForm(last.table) /\ last.table \in tableNames[last.conn])
        /\ ~IdentifierForm(last.table) => last.status = "InvalidIdentifier"

\* C4 witness: 'U;' was given to the constructor, and validateTableName
\* refused it.
C4_Witness ==
    /\ last.op = "validateTableName" /\ last.table = BadTable
    /\ BadTable \in tableNames[last.conn]
    /\ last.status = "InvalidIdentifier"

\* s is the start of t
IsPrefix(s, t) == Len(s) <= Len(t) /\ s = SubSeq(t, 1, Len(s))

\* C5: a traversal of a table that is not mutated while it runs yields, for
\* any batch size from 1 up, exactly the table's records in storage order:
\* a start of them while it runs, all of them when it has ended, so the same
\* sequence whatever the batch size.
C5_TraversalYieldsTableInOrder ==
    \A i \in IterIds :
        LET it == iters[i]
        IN (it.state \in {"suspended", "done"} /\ ~it.mutated) =>
              /\ it.batchSize >= 1
              /\ it.table \in DOMAIN store
              /\ IsPrefix(it.yielded, store[it.table].rows)
              /\ it.state = "done" => it.yielded = store[it.table].rows

\* C5 witness: a traversal of three records in batches of two has ended
\* with no mutation of the table.
C5_Witness ==
    /\ iters[1].state = "done" /\ ~iters[1].mutated
    /\ iters[1].batchSize = 2
    /\ Len(iters[1].yielded) = 3

\* the pages 1..k of table T in sizes of P, one after the other
RECURSIVE PagesUpTo(_, _, _, _, _)
PagesUpTo(known, st, T, k, P) ==
    IF k = 0 THEN <<>>
    ELSE PagesUpTo(known, st, T, k - 1, P)
             \o fetchRecordsWithPagination(known, st, T, k, P).rows

\* C6: fetchRecordsWithPagination(T, k, P) returns the records at the
\* 1-based positions (k-1)P+1 .. min(kP, N) of the N records of T in storage
\* order, and the pages k = 1, 2, ... one after the other are the table.
C6_PageIsItsSliceOfTheTable ==
    /\ (last.op = "fetchRecordsWithPagination" /\ last.status = "ok") =>
          LET rows == store[last.table].rows
              k == last.n1
              P == last.n2
              upto == IF k * P < Len(rows) THEN k * P ELSE Len(rows)
          IN /\ k >= 1 /\ P >= 1
             /\ last.rows = [j \in 1..(upto - (k - 1) * P) |-> rows[(k - 1) * P + j]]
    /\ \A T \in DOMAIN store \cap tableNames["A"], P \in 1..MaxPage :
          PagesUpTo(tableNames["A"], store, T, Len(store[T].rows), P) = store[T].rows

\* C6 witness: page 2 in pages of 2 of a table of three records has
\* returned the third record alone.
C6_Witness ==
    /\ last.op = "fetchRecordsWithPagination" /\ last.status = "ok"
    /\ last.n1 = 2 /\ last.n2 = 2
    /\ Len(store[last.table].rows) = 3
    /\ last.rows = <<store[last.table].rows[3]>>

\* C7: fetchRecordsWithPagination with page < 1 or pageSize < 1 fails, with
\* the pagination error when the table name is valid and known (an invalid
\* or unknown name is reported first); it sends no statement then and leaves
\* the store and the known-name sets as they were.  With page >= 1 and
\* pageSize >= 1 no call fails with the pagination error.
C7_PaginationArgumentsChecked ==
    [][last'.op = "fetchRecordsWithPagination" =>
          /\ (last'.n1 < 1 \/ last'.n2 < 1) =>
                /\ last'.status # "ok"
                /\ (IdentifierForm(last'.table) /\ last'.known)
                      => last'.status = "InvalidPagination"
                /\ stmts' = <<>>
                /\ UNCHANGED <<store, tableNames>>
          /\ (last'.n1 >= 1 /\ last'.n2 >= 1) => last'.status # "InvalidPagination"]_vars

\* C7 witness: page 0 of a known table was refused with the pagination
\* error.
C7_Witness ==
    /\ last.op = "fetchRecordsWithPagination" /\ last.known
    /\ last.n1 = 0 /\ last.n2 = 2
    /\ last.status = "InvalidPagination"

\* the operations C8 names (recordsIterator: the call and its first pull)
C8Ops ==
    {"getSchema", "createTable", "insertRecord", "upsertRecord", "fetchAllRecords",
     "fetchRecordsWithCondition", "fetchRecordsWithPagination", "recordsIterator"}

\* C8: once deleteTable(T) has dropped T, T is not in the connection's
\* known-name set, and each later getSchema, createTable, insertRecord,
\* upsertRecord, fetchAllRecords, fetchRecordsWithCondition,
\* fetchRecordsWithPagination and recordsIterator on T fails with the
\* unknown-table error and sends nothing to the engine.
C8_DroppedTableIsUnknown ==
    /\ \A c \in Conns : dropped[c] \cap tableNames[c] = {}
    /\ (last.op \in C8Ops /\ last.table \in dropped[last.conn]) =>
          /\ last.status = "UnknownTable"
          /\ stmts = <<>>

\* C8 witness: createTable on a dropped table has failed as unknown.
C8_Witness ==
    /\ last.op = "createTable" /\ last.table = Users
    /\ Users \in dropped["A"]
    /\ last.status = "UnknownTable" /\ stmts = <<>>

\* C9: deleteTable(T) returns normally and leaves the store unchanged
\* whenever T, an identifier the connection knows as a table name or has
\* dropped, is absent from the engine's catalog; so a second deleteTable(T) right
\* after one that dropped T returns normally too.
C9_DropOfAbsentTableReturnsNormally ==
    [][(/\ last'.op = "deleteTable"
        /\ IdentifierForm(last'.table)
        /\ last'.table \in tableNames[last'.conn] \cup dropped[last'.conn]
        /\ last'.table \notin DOMAIN store) =>
          /\ last'.status = "ok"
          /\ store' = store]_vars

\* the value is of the storage class the column's declared type asks for
OfColumnClass(col, v) ==
    \/ col.type.base = "INTEGER" /\ v.tag = "int"
    \/ col.type.base = "TEXT" /\ v.tag = "text"

\* table after holds the rows of table before and one more row, which has
\* value R[j][2] in column R[j][1] for every field j of R that fields admits
OneMoreRow(before, after, R, fields(_)) ==
    /\ Len(after.rows) = Len(before.rows) + 1
    /\ \E k \in 1..Len(after.rows) :
          /\ before.rows = SubSeq(after.rows, 1, k - 1)
                               \o SubSeq(after.rows, k + 1, Len(after.rows))
          /\ \A j \in 1..Len(R) : fields(j) => after.rows[k][R[j][1]] = R[j][2]

\* inserts and fetches keep every row a table holds, and an unlimited
\* fetchAllRecords returns the rows of the table
RowsKeptAndFetched ==
    /\ last'.op \in {"insertRecord", "fetchAllRecords"} =>
          \A T \in DOMAIN store :
              /\ T \in DOMAIN store'
              /\ \A i \in 1..Len(store[T].rows) :
                    \E k \in 1..Len(store'[T].rows) : store'[T].rows[k] = store[T].rows[i]
    /\ (last'.op = "fetchAllRecords" /\ last'.status = "ok" /\ last'.n1 = 0) =>
          last'.rows = store'[last'.table].rows

AllFields(j) == TRUE

\* C10 as stated: after insertRecord(T, R) has succeeded the table holds one
\* more record, equal to R on every field R sets, whatever the order of R's
\* keys; later inserts and fetches keep that record, and fetchAllRecords
\* returns it.
C10_RoundTripOnEveryField ==
    [][/\ (last'.op = "insertRecord" /\ last'.status = "ok") =>
             OneMoreRow(store[last'.table], store'[last'.table], last'.rec, AllFields)
       /\ RowsKeptAndFetched]_vars

\* C10 amended: after insertRecord(T, R) has succeeded the table holds one
\* more record, equal to R on every field R sets to a value of its column's
\* storage class (an integer in an INTEGER column, text in a TEXT column),
\* whatever the order of R's keys; a value of another class may be fetched
\* as the column's affinity converted it.  Later inserts and fetches keep
\* that record, and fetchAllRecords returns it.
C10_RoundTripOnFieldsOfColumnClass ==
    [][/\ (last'.op = "insertRecord" /\ last'.status = "ok") =>
             LET R == last'.rec
                 InClass(j) == OfColumnClass(ColOf(store[last'.table], R[j][1]), R[j][2])
             IN OneMoreRow(store[last'.table], store'[last'.table], R, InClass)
       /\ RowsKeptAndFetched]_vars

\* C10 witness: the record {q: 2, nm: 'x'} was inserted, another insert
\* followed, and fetchAllRecords returned both, the first with nm = 'x' and
\* q = 2.
C10_Witness ==
    /\ last.op = "fetchAllRecords" /\ last.status = "ok" /\ last.n1 = 0
    /\ Len(last.rows) = 2
    /\ last.rows[1][ColName] = TextV("x") /\ last.rows[1][ColQty] = IntV(2)
    /\ last.rows[2][ColQty] = IntV(7)

\* the value record R gives column c, null when R does not set c
ValueIn(R, c) ==
    IF \E j \in 1..Len(R) : R[j][1] = c
    THEN R[CHOOSE j \in 1..Len(R) : R[j][1] = c][2]
    ELSE NullV

\* table after is table before with the rows at hits taking R's values in the
\* fields of R that fields admits, and nothing else changed
RowsUpdated(before, after, hits, R, fields(_)) ==
    /\ Len(after.rows) = Len(before.rows)
    /\ \A i \in 1..Len(before.rows) :
          IF i \in hits
          THEN /\ \A j \in 1..Len(R) : fields(j) => after.rows[i][R[j][1]] = R[j][2]
               /\ \A n \in DOMAIN before.rows[i] :
                     n \notin Range(Keys(R)) => after.rows[i][n] = before.rows[i][n]
          ELSE after.rows[i] = before.rows[i]

\* what a successful upsertRecord(T, R, c) did, when the rows taken to have
\* R's value of c are those conflicts(v, row value) picks
UpsertDid(conflicts(_, _), fields(_)) ==
    LET T == last'.table
        R == last'.rec
        c == stmts'[1].names[Len(stmts'[1].names)]
        hits == {i \in 1..Len(store[T].rows) :
                    conflicts(ValueIn(R, c), store[T].rows[i][c])}
    IN IF hits = {} THEN OneMoreRow(store[T], store'[T], R, fields)
       ELSE RowsUpdated(store[T], store'[T], hits, R, fields)

SameValue(v, w) == v = w
SameValueNotNull(v, w) == v = w /\ v.tag # "null"

\* C11 as stated: a successful upsertRecord(T, R, c) on a unique column c
\* adds one record equal to R on its set fields when no record has R's value
\* of c; otherwise the record count is unchanged and the record with that
\* value takes R's values in the fields R lists.
C11_UpsertAddsOrUpdates ==
    [][(last'.op = "upsertRecord" /\ last'.status = "ok") =>
          UpsertDid(SameValue, AllFields)]_vars

\* C11 amended: a successful upsertRecord(T, R, c) on a unique column c adds
\* one record when no record has R's value of c or that value is null (also
\* when R does not set c); otherwise the record count is unchanged and the
\* record with that value is updated in the fields R lists.  The record
\* added or updated equals R on every field R sets to a value of its
\* column's storage class.
C11_UpsertAddsOrUpdatesNotNull ==
    [][(last'.op = "upsertRecord" /\ last'.status = "ok") =>
          LET R == last'.rec
              InClass(j) == OfColumnClass(ColOf(store[last'.table], R[j][1]), R[j][2])
          IN UpsertDid(SameValueNotNull, InClass)]_vars

\* C11 witness: after upserts of {nm: 'x', q: 2} and then {nm: 'x', q: 3} the
\* table holds one record, with q = 3.
C11_Witness ==
    /\ last.op = "upsertRecord" /\ last.status = "ok" /\ last.rec = RecNameQty3
    /\ Len(store[Users].rows) = 1
    /\ store[Users].rows[1][ColQty] = IntV(3)
    /\ store[Users].seq = 2

\* C12: every recordsIterator call is a traversal of its own from offset 0:
\* with several traversals of one unmutated table on one connection and
\* their pulls in any order, a step that starts or advances one traversal
\* leaves every other traversal (its offset, batch and position) as it was,
\* each traversal has yielded a start of the table's records in storage
\* order at every moment, and all of them when it has ended.
C12_TraversalsAreIndependent ==
    [][\A i \in IterIds :
          /\ iters'[i] # iters[i] =>
                \A j \in IterIds \ {i} : iters'[j] = iters[j]
          /\ iters'[i].state = "created" =>
                iters'[i].offset = 0 /\ iters'[i].yielded = <<>>
          /\ (iters'[i].state = "suspended" /\ iters[i].state = "created") =>
                iters'[i].offset = 0
          /\ iters'[i].state \in {"suspended", "done"} =>
                /\ IsPrefix(iters'[i].yielded, store'[iters'[i].table].rows)
                /\ iters'[i].state = "done" =>
                      iters'[i].yielded = store'[iters'[i].table].rows]_vars

\* C12 witness: of two traversals of a table of three records, one in
\* batches of two has ended with all three while the other, in batches of
\* one, stands at its second record.
C12_Witness ==
    /\ Len(store[Users].rows) = 3
    /\ iters[1].state = "suspended" /\ iters[1].batchSize = 1 /\ iters[1].offset = 1
    /\ iters[2].state = "done" /\ iters[2].batchSize = 2
    /\ Len(iters[2].yielded) = 3

\* C13: with callers on one connection or on several connections opened on
\* one store, and their calls in any order, every successful insertRecord on
\* T adds exactly one record to T and keeps those T held, a failed one adds
\* none, and fetchAllRecords(T) through any connection returns the records
\* of T; so after k successful inserts a fetch returns exactly k more records.
C13_NoInsertLostOrDuplicated ==
    [][/\ (last'.op = "insertRecord" /\ last'.status = "ok") =>
             LET before == store[last'.table].rows
                 after == store'[last'.table].rows
             IN /\ Len(after) = Len(before) + 1
                /\ \E k \in 1..Len(after) :
                      before = SubSeq(after, 1, k - 1) \o SubSeq(after, k + 1, Len(after))
       /\ (last'.op = "insertRecord" /\ last'.status # "ok") => store' = store
       /\ last'.op = "fetchAllRecords" =>
             /\ store' = store
             /\ last'.status = "ok" => last'.rows = store[last'.table].rows]_vars

\* C13 witness: connection B has fetched three records, its own one between
\* two that connection A inserted.
C13_Witness ==
    /\ last.op = "fetchAllRecords" /\ last.conn = "B" /\ last.status = "ok"
    /\ Len(last.rows) = 3
    /\ last.rows[1][ColName] # NullV
    /\ last.rows[2][ColName] = NullV
    /\ last.rows[3][ColName] # NullV

\* C14: the four failure conditions (invalid identifier, unknown table,
\* invalid pagination arguments, engine-rejected statement) reach the caller
\* as four different error types: two consecutive calls that fail under
\* different conditions never throw the same error type.
C14_FailureKindsHaveDistinctTypes ==
    [][(/\ last.status # "ok"
        /\ last'.status # "ok"
        /\ last.status # last'.status) => last.errType # last'.errType]_vars

\* the parent the record R of Posts refers to is missing from the store st
Dangling(st, R) ==
    /\ ValueIn(R, ColUserId).tag # "null"
    /\ \A i \in 1..Len(st[Users].rows) :
          st[Users].rows[i][ColId] # ValueIn(R, ColUserId)

\* C15: foreign-key enforcement is OFF on every connection after
\* construction and changes only by setForeignKeyMode, on the caller's
\* connection and to the mode given.  Under ON an insert of a child whose
\* parent is missing fails and adds no record, and one whose parent exists
\* succeeds and adds one; under OFF the insert with the missing parent
\* succeeds and adds one.
C15_ForeignKeysEnforcedOnlyWhenOn ==
    /\ \A c \in Conns : fkMode[c] = "OFF"
    /\ [][/\ (\E c \in Conns : fkMode'[c] # fkMode[c]) =>
                /\ last'.op = "setForeignKeyMode"
                /\ \A c \in Conns : c # last'.conn => fkMode'[c] = fkMode[c]
          /\ last'.op = "setForeignKeyMode" =>
                /\ fkMode'[last'.conn] = (IF last'.n1 = 1 THEN "ON" ELSE "OFF")
                /\ store' = store
          /\ (last'.op = "insertRecord" /\ last'.table = Posts) =>
                LET missing == Dangling(store, last'.rec)
                    on == fkMode[last'.conn] = "ON"
                    added == Len(store'[Posts].rows) = Len(store[Posts].rows) + 1
                IN /\ (on /\ missing) => (last'.status # "ok" /\ store' = store)
                   /\ (on /\ ~missing) => (last'.status = "ok" /\ added)
                   /\ (~on /\ missing) => (last'.status = "ok" /\ added)]_vars

\* C15 witness: a connection with enforcement ON has had the insert of a
\* child of a missing parent refused, in a store where a parent and a child
\* of it exist and the other connection has enforcement OFF.
C15_Witness ==
    /\ last.op = "insertRecord" /\ last.table = Posts /\ last.status # "ok"
    /\ fkMode[last.conn] = "ON"
    /\ \E c \in Conns : fkMode[c] = "OFF"
    /\ Dangling(store, last.rec)
    /\ Len(store[Users].rows) = 1
    /\ \E i \in 1..Len(store[Posts].rows) : ~Dangling(store, <<(<<ColUserId, store[Posts].rows[i][ColUserId]>>)>>)

\* C16: fetchAllRecords(T, L) with a limit L >= 0 supplied, 0 included,
\* returns the first min(L, N) of the N records of T; all N are returned
\* only when no limit is supplied.
C16_SuppliedLimitBoundsTheResult ==
    (last.op = "fetchAllRecords" /\ last.status = "ok") =>
        LET rows == store[last.table].rows
        IN IF last.n1 = 1
           THEN last.rows = Take(rows, IF last.n2 < Len(rows) THEN last.n2 ELSE Len(rows))
           ELSE last.rows = rows

\* the tables the engine keeps for itself: their names begin with the
\* reserved prefix 'sqlite_'
EngineInternal(name) ==
    /\ LikeSqlitePrefix(name)
    /\ name[7] = "_"

\* C17: right after construction the known-name set is the explicit list
\* when one was given (connection B: Users, Posts), and otherwise the user
\* tables of the catalog, every table but the engine's own (connection A).
C17_KnownNamesAtConstruction ==
    last = NoCall =>
        /\ tableNames["B"] = {Users, Posts}
        /\ tableNames["A"] = {n \in DOMAIN store : ~EngineInternal(n)}

\* the column names of the descriptors getSchema returns
SchemaNames(rows) == [i \in 1..Len(rows) |-> rows[i].name]

\* createTable has sent its statement: the table name and every column name
\* passed validation
CreateSent == last'.op = "createTable" /\ stmts' # <<>>

\* what getSchema returns for the table of the call, after the call
SchemaAfter == getSchema(tableNames'[last'.conn], store', last'.table)

TextOf(s) == [kind |-> s.kind, table |-> s.table, names |-> s.names]

\* the number of arguments of a call
ArgumentCount(call) ==
    IF call.op = "fetchAllRecords" THEN 1 + call.n1 ELSE 0

\* C20: for insertRecord, upsertRecord, fetchAllRecords,
\* fetchRecordsWithCondition and fetchRecordsWithPagination, two calls one
\* after the other that agree on the operation, the table, the column names
\* in order and the number of arguments, and differ at most in the values,
\* send the same statement text; the record's values are the bound
\* parameters, in the order of the columns.
C20_TextIndependentOfValues ==
    [][(/\ last'.op \in {"insertRecord", "upsertRecord", "fetchAllRecords",
                         "fetchRecordsWithCondition", "fetchRecordsWithPagination"}
        /\ last.op = last'.op
        /\ last.table = last'.table
        /\ Keys(last.rec) = Keys(last'.rec)
        /\ ArgumentCount(last) = ArgumentCount(last')
        /\ stmts # <<>> /\ stmts' # <<>>) =>
            /\ TextOf(stmts[1]) = TextOf(stmts'[1])
            /\ last'.op \in {"insertRecord", "upsertRecord"} =>
                  stmts'[1].params = Values(last'.rec)]_vars

\* C21: createTable(T, columns) for a T of identifier form that is not in
\* the caller's known-name set creates the table and adds T to the set, and
\* a deleteTable(T) that dropped the table takes T out of the set.
C21_CreateAddsAndDropRemovesTheName ==
    [][/\ (/\ last'.op = "createTable"
           /\ IdentifierForm(last'.table)
           /\ last'.table \notin tableNames[last'.conn]) =>
              /\ last'.status = "ok"
              /\ last'.table \in DOMAIN store'
              /\ last'.table \in tableNames'[last'.conn]
       /\ (/\ last'.op = "deleteTable"
           /\ last'.status = "ok"
           /\ last'.table \in DOMAIN store) =>
              last'.table \notin tableNames'[last'.conn]]_vars

\* C22: in a traversal with batch size B >= 1 of a table of N records that
\* no call changes, the offset is 0 at the first fetch and a multiple of B
\* ever after, the fetches made are offset / B + 1, the offset moves only by
\* B and only when a batch of B records has been yielded to its end, a pull
\* that finds a batch shorter than B yielded to its end ends the traversal
\* without a fetch, every pull yields one more record or ends the
\* traversal, and a traversal that has ended has made N \div B + 1 fetches.
C22_OffsetAdvancesByFullBatches ==
    [][\A i \in IterIds :
          LET it == iters[i]
              to == iters'[i]
              N == Len(store[to.table].rows)
              B == to.batchSize
          IN (to.state \in {"suspended", "done"} /\ B >= 1) =>
                /\ to.offset % B = 0
                /\ to.fetches = (to.offset \div B) + 1
                /\ Len(to.batch) <= B
                /\ Len(to.yielded) <= N
                /\ to.state = "done" => to.fetches = (N \div B) + 1
                /\ it.state = "created" => to.offset = 0
                /\ (it.state = "suspended" /\ to # it) =>
                      /\ to.offset # it.offset =>
                            /\ to.offset = it.offset + B
                            /\ Len(it.batch) = B
                            /\ it.idx = B
                      /\ (it.idx = Len(it.batch) /\ Len(it.batch) < B) =>
                            (to.state = "done" /\ to.fetches = it.fetches)
                      /\ \/ Len(to.yielded) = Len(it.yielded) + 1
                         \/ to.state = "done" /\ to.yielded = it.yielded]_vars

\* C22 witness: of three records, one traversal with batches of 2 has ended
\* after 2 fetches at offset 2, another with batches of 1 after 4 fetches at
\* offset 3.
C22_Witness ==
    /\ Len(store[Users].rows) = 3
    /\ iters[1].state = "done" /\ iters[1].batchSize = 2
    /\ iters[1].fetches = 2 /\ iters[1].offset = 2
    /\ iters[2].state = "done" /\ iters[2].batchSize = 1
    /\ iters[2].fetches = 4 /\ iters[2].offset = 3

\* the least number of batches of B records that hold m records
CeilDiv(m, B) == (m + B - 1) \div B

\* C23: a traversal has sent no statement before its first pull; a batch is
\* fetched only by a pull of that traversal, one at a time, and only when
\* the records fetched before have all been yielded; after m >= 1 records
\* of batches of B the fetches made are ceil(m / B); and a traversal the
\* caller has left sends nothing when it is left and nothing ever after.
C23_FetchesOnlyWhenPulled ==
    [][\A i \in IterIds :
          LET it == iters[i]
              to == iters'[i]
          IN /\ to.state = "created" => to.fetches = 0
             /\ (to.state = "created" /\ it.state # "created") => stmts' = stmts
             /\ (to.state = "suspended" /\ to.batchSize >= 1) =>
                    to.fetches = CeilDiv(Len(to.yielded), to.batchSize)
             /\ (to.state # "created" /\ to.fetches # it.fetches) =>
                    /\ last'.op \in {"recordsIterator", "recordsIterator.next"}
                    /\ last'.n2 = i
                    /\ to.fetches = it.fetches + 1
                    /\ stmts' = <<BatchStmt(to, to.offset)>>
                    /\ it.state = "created" \/ it.idx = Len(it.batch)
             /\ (to.state = "closed" /\ it.state # "closed") =>
                    (to.fetches = it.fetches /\ stmts' = <<>>)
             /\ it.state = "closed" => to = it]_vars

\* C23 witness: of three records a traversal with batches of 1 was left
\* after one record and one fetch, and one with batches of 2 after three
\* records and two fetches.
C23_Witness ==
    /\ Len(store[Users].rows) = 3
    /\ iters[1].state = "closed" /\ iters[1].batchSize = 1
    /\ Len(iters[1].yielded) = 1 /\ iters[1].fetches = 1
    /\ iters[2].state = "closed" /\ iters[2].batchSize = 2
    /\ Len(iters[2].yielded) = 3 /\ iters[2].fetches = 2

\* C24: every batch statement a traversal sends names a table that is in
\* the connection's known-name set when the statement is sent, also when
\* deleteTable took the name out of the set between two of its fetches.
C24_BatchStatementsNameKnownTable ==
    (last.op \in {"recordsIterator", "recordsIterator.next"} /\ stmts # <<>>) =>
        \A k \in 1..Len(stmts) : stmts[k].table \in tableNames[last.conn]

\* C25: a statement of createTable, insertRecord, upsertRecord,
\* fetchAllRecords, fetchRecordsWithCondition, fetchRecordsWithPagination,
\* getSchema or deleteTable that the engine rejects reaches the caller as
\* SQLError.
C25_EngineRejectionIsSQLError ==
    (/\ last.op \in {"createTable", "insertRecord", "upsertRecord", "fetchAllRecords",
                     "fetchRecordsWithCondition", "fetchRecordsWithPagination",
                     "getSchema", "deleteTable"}
     /\ last.status = "StatementFailed") => last.errType = "SQLError"

\* C26: in every state, createTable on a table name that passes validation,
\* with a column list that has a name not of identifier form at any
\* position, fails as an invalid identifier, sends no statement, and leaves
\* the store and the known-name set as they are.
C26_ColumnNamesValidatedBeforeTheStatement ==
    \A c \in Conns, tableName \in {Users, Posts}, columns \in CreateLists :
        (/\ validateTableName(tableNames[c], tableName).status = "ok"
         /\ \E i \in 1..Len(columns) : ~IdentifierForm(columns[i].name)) =>
            LET r == createTable(tableNames[c], store, tableName, columns)
            IN /\ r.out = Fail("InvalidIdentifier", "SQLError")
               /\ r.stmts = <<>>
               /\ r.store = store
               /\ r.known = tableNames[c]

\* C26 witness: createTable of a known table that does not exist has failed
\* on a column name, with no statement sent and no table made.
C26_Witness ==
    /\ last.op = "createTable" /\ last.status = "InvalidIdentifier"
    /\ last.known /\ IdentifierForm(last.table)
    /\ stmts = <<>>
    /\ last.table \notin DOMAIN store
    /\ last.table \in tableNames[last.conn]

\* C27: a call through one connection leaves the known-name set of every
\* other connection as it was; and a call on a table of identifier form
\* that is in its own connection's set sends its statement to the engine,
\* also after another connection has dropped that table.
C27_KnownNamesArePrivate ==
    [][/\ \A c \in Conns : c # last'.conn => tableNames'[c] = tableNames[c]
       /\ (/\ last'.op \in DataOps
           /\ IdentifierForm(last'.table)
           /\ last'.table \in tableNames[last'.conn]) =>
              /\ last'.status \notin {"UnknownTable", "InvalidIdentifier"}
              /\ stmts' # <<>>
              /\ \A k \in 1..Len(stmts') : stmts'[k].table = last'.table]_vars

\* C27 witness: connection A has dropped Users and lost the name; connection
\* B still has it, and its insert into Users went to the engine, which
\* refused it.
C27_Witness ==
    /\ dropped["A"] = {Users}
    /\ Users \notin tableNames["A"]
    /\ Users \in tableNames["B"]
    /\ Users \notin DOMAIN store
    /\ last.conn = "B" /\ last.op = "insertRecord" /\ last.table = Users
    /\ last.status = "StatementFailed"
    /\ Len(stmts) = 1

\* C28: with any integer as batch size, 0 and the negative ones included, a
\* traversal of a table that no call changes yields no record more than
\* once, and so never more records than the table holds.
C28_NoRecordYieldedTwice ==
    \A i \in IterIds :
        LET yielded == iters[i].yielded
        IN /\ \A j, k \in 1..Len(yielded) : j # k => yielded[j] # yielded[k]
           /\ Len(yielded) <= Len(TableOf(store, iters[i].table).rows)

\* C29: while the only calls that change the table are inserts that put
\* their record at the end, a traversal with batch size B >= 1 has yielded a
\* start of the table as it is now, so its records in storage order, each
\* once and none left out; and a traversal that has ended has yielded every
\* record the table held when the traversal started.
C29_AppendsLoseAndRepeatNothing ==
    \A i \in IterIds :
        (iters[i].state \in {"suspended", "done", "closed"} /\ iters[i].batchSize >= 1) =>
            /\ IsPrefix(iters[i].yielded, store[iters[i].table].rows)
            /\ \A j, k \in 1..Len(iters[i].yielded) :
                  j # k => iters[i].yielded[j] # iters[i].yielded[k]
            /\ iters[i].state = "done" => Len(iters[i].yielded) >= iters[i].atStart

\* C29 witness: a traversal with batches of 2 that started on two records
\* has ended with three, the third inserted while it ran; another with
\* batches of 2 that started on one record has ended with that one and the
\* table holds three.
C29_Witness ==
    /\ Len(store[Users].rows) = 3
    /\ iters[1].state = "done" /\ iters[1].batchSize = 2 /\ iters[1].atStart = 2
    /\ Len(iters[1].yielded) = 3 /\ iters[1].mutated
    /\ iters[2].state = "done" /\ iters[2].batchSize = 2 /\ iters[2].atStart = 1
    /\ Len(iters[2].yielded) = 1 /\ iters[2].mutated

\* the two results are the same outcome (success or failure), the same
\* store and the same known-name set
SameEffect(r, d) ==
    /\ (r.out.status = "ok") = (d.out.status = "ok")
    /\ r.store = d.store
    /\ r.known = d.known

\* C30: in every state BunLiteDB reaches, each shared operation, made on the
\* present store with a connection's known-name set, has the same outcome
\* and leaves the same store and known-name set in BunLiteDB and in
\* DbConnector; so the two stay equal along every sequence of calls.
C30_DbConnectorAndBunLiteDBAgree ==
    \A c \in Conns, tableName \in TableInputs :
        LET known == tableNames[c]
        IN /\ SameEffect(getSchema(known, store, tableName),
                         DbConnectorGetSchema(known, store, tableName))
           /\ SameEffect(deleteTable(known, store, tableName),
                         DbConnectorDeleteTable(known, store, tableName))
           /\ SameEffect(fetchAllRecords(known, store, tableName, NoLimit),
                         DbConnectorFetchAllRecords(known, store, tableName, NoLimit))
           /\ SameEffect(fetchRecordsWithCondition(known, store, tableName, ColQty,
                                                   <<IntV(7)>>),
                         DbConnectorFetchRecordsWithCondition(known, store, tableName,
                                                              ColQty, <<IntV(7)>>))
           /\ \A columns \in ColumnLists :
                 SameEffect(createTable(known, store, tableName, columns),
                            DbConnectorCreateTable(known, store, tableName, columns))
           /\ \A values \in Records :
                 /\ SameEffect(insertRecord(known, store, tableName, values, fkMode[c]),
                               DbConnectorInsertRecord(known, store, tableName, values,
                                                       fkMode[c]))
                 /\ \A conflictColumn \in ConflictColumns :
                       SameEffect(upsertRecord(known, store, tableName, values,
                                               conflictColumn, fkMode[c]),
                                  DbConnectorUpsertRecord(known, store, tableName, values,
                                                          conflictColumn, fkMode[c]))

=============================================================================
